---- MODULE Spec2Model ----
(***************************************************************************)
(* Model of the conversation-history data-access layer                     *)
(*   backend/history/comosdbservice-comments.py  (CosmosConversationClient)*)
(*   backend/utils.py                            (format_stream_response)  *)
(*                                                                         *)
(* The Cosmos container is a set of documents in which (userId, id) is the *)
(* key: userId is the partition key, id is unique inside a partition.      *)
(* Identifiers are UUIDs; a conversation and a message never share one.    *)
(***************************************************************************)
EXTENDS Integers, Sequences, FiniteSets, TLC

\* ------------------------------------------------------------------ bounds
MaxTime == 1      \* the clock runs over 0..MaxTime
MaxDocs == 2      \* documents the container may hold

Users   == {"u1", "u2"}
ConvIds == {"c1", "c2"}
MsgIds  == {"m1", "m2"}
\* The identifiers callers create documents under, per user: the same
\* identifier may exist in both partitions.
ConvIdsOf == [u \in Users |-> IF u = "u1" THEN {"c1", "c2"} ELSE {"c1"}]
MsgIdsOf  == [u \in Users |-> IF u = "u1" THEN {"m1", "m2"} ELSE {}]
Titles  == {"", "t"}
Roles   == {"user"}
Contents == {"hi"}
Feedbacks == {"positive"}
Procs   == {"p1", "p2"}

VARIABLES
  container,                \* the documents of the Cosmos container
  now,                      \* the last value datetime.utcnow() returned
  enable_message_feedback,  \* self.enable_message_feedback
  lastOp,                   \* history: the call that completed last
  result,                   \* the list the last query returned
  pc, frame,                \* per caller: position in its call, and its locals
  chunk, history_metadata, message_uuid, response, formatted

storeVars == <<container, now, enable_message_feedback, lastOp>>
procVars  == <<pc, frame>>
fmtVars   == <<chunk, history_metadata, message_uuid, response, formatted>>
vars == <<container, now, enable_message_feedback, lastOp, result, pc, frame,
          chunk, history_metadata, message_uuid, response, formatted>>

\* ------------------------------------------------------------ timestamps
\* datetime.isoformat(): "YYYY-MM-DDTHH:MM:SS" when the microsecond is 0 and
\* "YYYY-MM-DDTHH:MM:SS.ffffff" otherwise. A clock value t is second t \div 2,
\* microsecond t % 2; the string is the sequence of its fields.
isoformat(t) == IF t % 2 = 0 THEN <<t \div 2>> ELSE <<t \div 2, 1>>

\* String order (the order Cosmos sorts string properties by): the first
\* differing position decides, a proper prefix comes first.
StrLess(a, b) ==
  \/ \E i \in 1..Len(a) :
        /\ i <= Len(b)
        /\ a[i] < b[i]
        /\ \A j \in 1..(i - 1) : a[j] = b[j]
  \/ /\ Len(a) < Len(b)
     /\ \A j \in 1..Len(a) : a[j] = b[j]

StrLeq(a, b) == a = b \/ StrLess(a, b)

Times == 0..MaxTime

\* ------------------------------------------------ container (Cosmos SDK)
SameKey(d, id, pk) == d.id = id /\ d.userId = pk

\* container_client.upsert_item(doc): insert, or replace the document with
\* the same id in the same partition.
upsert_item(c, doc) == {d \in c : ~SameKey(d, doc.id, doc.userId)} \cup {doc}

\* container_client.read_item(item, partition_key): the document, if any
\* (the SDK raises CosmosResourceNotFoundError when there is none).
read_item(c, id, pk) == {d \in c : SameKey(d, id, pk)}

\* A delete that finds the document by id alone, in any partition.
delete_item_AnyPartition(c, id, pk) == {d \in c : d.id # id}

\* container_client.delete_item(item, partition_key)
delete_item(c, id, pk) == {d \in c : ~SameKey(d, id, pk)}

\* ORDER BY <field>: a document without the property has an undefined key.
\* Undefined keys come before defined ones; equal or undefined keys are in
\* no specified relative order.
KeyLess(d1, d2, field) ==
  IF field \in DOMAIN d2
  THEN IF field \in DOMAIN d1 THEN StrLess(d1[field], d2[field]) ELSE TRUE
  ELSE FALSE

\* Every order in which the query engine may return the documents of S
\* under ORDER BY field sort_order.
OrderBy(S, field, sort_order) ==
  LET n == Cardinality(S) IN
  { s \in [1..n -> S] :
      /\ \A i, j \in 1..n : i # j => s[i] # s[j]
      /\ \A i, j \in 1..n : i < j =>
            IF sort_order = "ASC" THEN ~KeyLess(s[j], s[i], field)
                                  ELSE ~KeyLess(s[i], s[j], field) }

Min(a, b) == IF a < b THEN a ELSE b

\* A page that runs one item past its limit.
OffsetLimit_OneMore(s, offset, limit) ==
  SubSeq(s, offset + 1, Min(offset + limit + 1, Len(s)))

\* OFFSET offset LIMIT limit
OffsetLimit(s, offset, limit) == SubSeq(s, offset + 1, Min(offset + limit, Len(s)))

\* ------------------------------------------- CosmosConversationClient
\* The conversation document create_conversation builds; t1 and t2 are its
\* two reads of datetime.utcnow().
NewConversation(id, user_id, title, t1, t2) ==
  [ id        |-> id,
    type      |-> "conversation",
    createdAt |-> isoformat(t1),
    updatedAt |-> isoformat(t2),
    userId    |-> user_id,
    title     |-> title ]

create_conversation(c, id, user_id, title, t1, t2) ==
  upsert_item(c, NewConversation(id, user_id, title, t1, t2))

upsert_conversation(c, conversation) == upsert_item(c, conversation)

\* A delete_conversation that reads and deletes without the partition key.
delete_conversation_NoPartition(c, user_id, conversation_id) ==
  {d \in c : d.id # conversation_id}

delete_conversation(c, user_id, conversation_id) ==
  LET conversation == read_item(c, conversation_id, user_id) IN
  IF conversation # {} THEN delete_item(c, conversation_id, user_id) ELSE c

\* The documents get_messages' WHERE clause selects.
MessagesOf(c, user_id, conversation_id) ==
  {d \in c : /\ d.type = "message"
             /\ d.conversationId = conversation_id
             /\ d.userId = user_id}

\* get_messages: every list the query may return. The query orders by
\* c.timestamp, a property no message document has.
get_messages(c, user_id, conversation_id) ==
  OrderBy(MessagesOf(c, user_id, conversation_id), "timestamp", "ASC")

\* A loop that returns after its first delete.
DeleteEach_FirstOnly(c, messages, user_id) ==
  IF messages = <<>> THEN c ELSE delete_item(c, Head(messages).id, user_id)

\* The loop of delete_messages over the list get_messages returned.
RECURSIVE DeleteEach(_, _, _)
DeleteEach(c, messages, user_id) ==
  IF messages = <<>> THEN c
  ELSE DeleteEach(delete_item(c, Head(messages).id, user_id), Tail(messages), user_id)

delete_messages(c, conversation_id, user_id, messages) ==
  IF messages # <<>> THEN DeleteEach(c, messages, user_id) ELSE c

\* The documents get_conversations' WHERE clause selects.
ConversationsOf(c, user_id) ==
  {d \in c : d.userId = user_id /\ d.type = "conversation"}

\* An optional number: None, or <<n>>.
None == <<>>

\* get_conversations: every list the query may return; limit is None or <<n>>.
get_conversations(c, user_id, limit, sort_order, offset) ==
  LET sorted == OrderBy(ConversationsOf(c, user_id), "updatedAt", sort_order) IN
  IF limit # None THEN {OffsetLimit(s, offset, limit[1]) : s \in sorted}
  ELSE sorted

\* get_conversation: the documents the query selects, none or one (the
\* method returns the first, or None).
get_conversation(c, user_id, conversation_id) ==
  {d \in c : /\ d.id = conversation_id
             /\ d.type = "conversation"
             /\ d.userId = user_id}

\* The message document create_message builds.
NewMessage(uuid, conversation_id, user_id, input_message, t1, t2, enabled) ==
  LET message ==
        [ id             |-> uuid,
          type           |-> "message",
          userId         |-> user_id,
          createdAt      |-> isoformat(t1),
          updatedAt      |-> isoformat(t2),
          conversationId |-> conversation_id,
          role           |-> input_message.role,
          content        |-> input_message.content ]
  IN IF enabled THEN [feedback |-> ""] @@ message ELSE message

\* A touch that copies the message's updatedAt instead.
TouchConversation_UpdatedAt(conversation, message) ==
  [conversation EXCEPT !.updatedAt = message.updatedAt]

\* conversation['updatedAt'] = message['createdAt']
TouchConversation(conversation, message) ==
  [conversation EXCEPT !.updatedAt = message.createdAt]

\* create_message, run without interruption.
create_message(c, message) ==
  LET c1    == upsert_item(c, message)
      found == get_conversation(c1, message.userId, message.conversationId)
  IN IF found = {} THEN c1
     ELSE upsert_conversation(c1, TouchConversation(CHOOSE x \in found : TRUE, message))

\* message['feedback'] = feedback
SetFeedback(message, feedback) ==
  [f \in DOMAIN message \cup {"feedback"} |->
      IF f = "feedback" THEN feedback ELSE message[f]]

update_message_feedback(c, user_id, message_id, feedback) ==
  LET message == read_item(c, message_id, user_id) IN
  IF message # {} THEN upsert_item(c, SetFeedback(CHOOSE m \in message : TRUE, feedback))
  ELSE c

\* ------------------------------------------------------------- callers
InputMessages == [role : Roles, content : Contents]

\* The documents a caller hands to upsert_conversation.
CallerConversations ==
  {[d EXCEPT !.title = title] :
      d \in {x \in container : x.type = "conversation"}, title \in Titles}
  \cup UNION {{NewConversation(id, u, title, now, now) :
                  id \in ConvIdsOf[u], title \in Titles} : u \in Users}

\* uuid.uuid4(): an identifier nothing in the container carries.
FreshIds ==
  ConvIds \ ({d.id : d \in container}
             \cup {d.conversationId : d \in {m \in container : m.type = "message"}})

Idle == \A p \in Procs : pc[p] = "idle"

\* --------------------------------------- calls running one at a time
\* lastOp records the call that completed last and, in doc, the key of the
\* document it looked up when that document was there (<<>> otherwise).
Found(S, user_id, id) == IF S # {} THEN <<user_id, id>> ELSE <<>>

CreateConversationCall(user_id, title) ==
  \E id \in FreshIds \cap ConvIdsOf[user_id], t1 \in now..MaxTime :
    \E t2 \in t1..MaxTime :
      /\ Cardinality(container) < MaxDocs
      /\ container' = create_conversation(container, id, user_id, title, t1, t2)
      /\ now' = t2
      /\ lastOp' = [op |-> "create_conversation", doc |-> <<>>]
      /\ UNCHANGED <<enable_message_feedback, result, procVars, fmtVars>>

CreateConversation ==
  \E user_id \in Users, title \in Titles : CreateConversationCall(user_id, title)

UpsertConversationCall(conversation) ==
  LET c1 == upsert_conversation(container, conversation) IN
  /\ Cardinality(c1) <= MaxDocs
  /\ container' = c1
  /\ lastOp' = [op |-> "upsert_conversation", doc |-> <<>>]
  /\ UNCHANGED <<now, enable_message_feedback, result, procVars, fmtVars>>

UpsertConversation ==
  \E conversation \in CallerConversations : UpsertConversationCall(conversation)

DeleteConversationCall(user_id, conversation_id) ==
  /\ container' = delete_conversation(container, user_id, conversation_id)
  /\ lastOp' = [op |-> "delete_conversation",
                doc |-> Found(read_item(container, conversation_id, user_id),
                              user_id, conversation_id)]
  /\ UNCHANGED <<now, enable_message_feedback, result, procVars, fmtVars>>

DeleteConversation ==
  \E user_id \in Users, conversation_id \in ConvIds :
    DeleteConversationCall(user_id, conversation_id)

DeleteMessagesCall(conversation_id, user_id) ==
  \E messages \in get_messages(container, user_id, conversation_id) :
    /\ container' = delete_messages(container, conversation_id, user_id, messages)
    /\ lastOp' = [op |-> "delete_messages",
                  doc |-> IF messages # <<>> THEN <<user_id, conversation_id>> ELSE <<>>]
    /\ UNCHANGED <<now, enable_message_feedback, result, procVars, fmtVars>>

DeleteMessages ==
  \E user_id \in Users, conversation_id \in ConvIds :
    DeleteMessagesCall(conversation_id, user_id)

CreateMessageCall(uuid, conversation_id, user_id, input_message) ==
  \E t1 \in now..MaxTime :
    \E t2 \in t1..MaxTime :
      LET message == NewMessage(uuid, conversation_id, user_id, input_message,
                                t1, t2, enable_message_feedback)
          c1 == create_message(container, message)
      IN
      /\ Cardinality(c1) <= MaxDocs
      /\ container' = c1
      /\ now' = t2
      /\ lastOp' = [op |-> "create_message",
                    doc |-> Found(get_conversation(container, user_id, conversation_id),
                                  user_id, conversation_id)]
      /\ UNCHANGED <<enable_message_feedback, result, procVars, fmtVars>>

CreateMessage ==
  \E user_id \in Users, conversation_id \in ConvIds, input_message \in InputMessages :
    \E uuid \in MsgIdsOf[user_id] :
      CreateMessageCall(uuid, conversation_id, user_id, input_message)

UpdateMessageFeedbackCall(user_id, message_id, feedback) ==
  /\ container' = update_message_feedback(container, user_id, message_id, feedback)
  /\ lastOp' = [op |-> "update_message_feedback",
                doc |-> Found(read_item(container, message_id, user_id),
                              user_id, message_id)]
  /\ UNCHANGED <<now, enable_message_feedback, result, procVars, fmtVars>>

UpdateMessageFeedback ==
  \E user_id \in Users, message_id \in MsgIds, feedback \in Feedbacks :
    UpdateMessageFeedbackCall(user_id, message_id, feedback)

NoFrame == [op |-> "none"]

NoChunk == [id |-> "-", model |-> "-", created |-> 0, object |-> "-", choices |-> <<>>]

InitRest ==
  /\ result = <<>>
  /\ pc = [p \in Procs |-> "idle"]
  /\ frame = [p \in Procs |-> NoFrame]
  /\ chunk = NoChunk
  /\ history_metadata = "h"
  /\ message_uuid = "None"
  /\ response = <<>>
  /\ formatted = FALSE

\* After construction: an empty container, either setting of the flag.
Init ==
  /\ container = {}
  /\ now = 0
  /\ enable_message_feedback \in BOOLEAN
  /\ lastOp = [op |-> "init", doc |-> <<>>]
  /\ InitRest

Next ==
  \/ CreateConversation
  \/ UpsertConversation
  \/ DeleteConversation
  \/ DeleteMessages
  \/ CreateMessage
  \/ UpdateMessageFeedback

Spec == Init /\ [][Next]_vars

\* ------------------------------------------------------------ queries
\* The defaults of get_conversations' signature.
DefaultSortOrder == "DESC"
DefaultOffset == 0

SortOrders == {"ASC", "DESC"}
Limits  == {None} \cup {<<n>> : n \in 0..MaxDocs}
Offsets == 0..MaxDocs

GetConversations ==
  \E user_id \in Users, limit \in Limits, sort_order \in SortOrders, offset \in Offsets :
    /\ result' \in get_conversations(container, user_id, limit, sort_order, offset)
    /\ lastOp' = [op |-> "get_conversations", user |-> user_id, limit |-> limit,
                  sort_order |-> sort_order, offset |-> offset, defaults |-> FALSE]
    /\ UNCHANGED <<container, now, enable_message_feedback, procVars, fmtVars>>

\* get_conversations(user_id, limit): sort_order and offset left to default.
GetConversationsDefault ==
  \E user_id \in Users, limit \in Limits :
    /\ result' \in get_conversations(container, user_id, limit,
                                     DefaultSortOrder, DefaultOffset)
    /\ lastOp' = [op |-> "get_conversations", user |-> user_id, limit |-> limit,
                  sort_order |-> DefaultSortOrder, offset |-> DefaultOffset,
                  defaults |-> TRUE]
    /\ UNCHANGED <<container, now, enable_message_feedback, procVars, fmtVars>>

GetMessages ==
  \E user_id \in Users, conversation_id \in ConvIds :
    /\ result' \in get_messages(container, user_id, conversation_id)
    /\ lastOp' = [op |-> "get_messages", user |-> user_id, conv |-> conversation_id]
    /\ UNCHANGED <<container, now, enable_message_feedback, procVars, fmtVars>>

\* Documents as create_conversation, upsert_conversation and create_message
\* leave them in the container.
StoredDocs(enabled) ==
  UNION {{NewConversation(id, u, "", 0, t) : id \in ConvIdsOf[u], t \in Times}
           : u \in Users}
  \cup UNION {{NewMessage(uuid, id, u, im, t, t, enabled) :
                  uuid \in MsgIdsOf[u], id \in ConvIds, im \in InputMessages, t \in Times}
                : u \in Users}

UniqueKeys(S) == \A d, e \in S : (d.id = e.id /\ d.userId = e.userId) => d = e

\* The containers of at most k documents of D.
RECURSIVE Containers(_, _)
Containers(D, k) ==
  IF k = 0 THEN {{}}
  ELSE {S \in {T \cup {d} : T \in Containers(D, k - 1), d \in D} : UniqueKeys(S)}
       \cup {{}}

InitQuery ==
  /\ enable_message_feedback = FALSE
  /\ container \in Containers(StoredDocs(enable_message_feedback), MaxDocs)
  /\ now = MaxTime
  /\ lastOp = [op |-> "init", doc |-> <<>>]
  /\ InitRest

NextQuery ==
  \/ GetConversations
  \/ GetConversationsDefault
  \/ GetMessages

SpecQuery == InitQuery /\ [][NextQuery]_vars

\* ----------------------------------------- utils.format_stream_response
\* Python's None is the string "null"; an object without an attribute is a
\* record without the field; the empty dict is the empty function.
Truthy(x) == x # "null" /\ x # ""

EmptyObject == <<>>

ToolMessage(content) == [role |-> "tool", content |-> content]
AssistantMessage(content) == [role |-> "assistant", content |-> content]

\* delta.context, when the delta has the attribute.
Contexts ==
  { [intent |-> "q"],
    [messages |-> <<>>],
    [messages |-> <<ToolMessage("doc1")>>],
    [messages |-> <<AssistantMessage("a")>>],
    [messages |-> <<AssistantMessage("a"), ToolMessage("doc1")>>],
    [messages |-> <<ToolMessage("doc1"), ToolMessage("doc2")>>] }

DeltaRoles == {"null", "assistant", "tool"}
DeltaContents == {"null", "", "text"}

NullDelta == [null |-> TRUE]

Deltas ==
  {NullDelta}
  \cup [role : DeltaRoles, content : DeltaContents]
  \cup [role : DeltaRoles, content : DeltaContents, context : Contexts]

Chunks ==
  { [id |-> "chunk-1", model |-> "gpt", created |-> 1, object |-> "chunk",
     choices |-> ch] : ch \in {<<>>} \cup {<<[delta |-> d]>> : d \in Deltas} }

MessageUuids == {"null", "", "uuid-1"}

\* context.get("messages"): the list, or None without the key.
ContextMessages(context) ==
  IF "messages" \in DOMAIN context THEN context.messages ELSE <<>>

response_obj(chunk_, metadata, uuid, messages) ==
  [ id               |-> IF Truthy(uuid) THEN uuid ELSE chunk_.id,
    model            |-> chunk_.model,
    created          |-> chunk_.created,
    object           |-> chunk_.object,
    choices          |-> <<[messages |-> messages]>>,
    history_metadata |-> metadata ]

\* A loop that collects every message of role "tool" before returning.
RECURSIVE FirstTool_All(_)
FirstTool_All(ms) ==
  IF ms = <<>> THEN <<>>
  ELSE IF Head(ms).role = "tool"
       THEN <<ToolMessage(Head(ms).content)>> \o FirstTool_All(Tail(ms))
       ELSE FirstTool_All(Tail(ms))

\* The loop over delta.context["messages"]: it returns at the first message
\* of role "tool", with that message alone.
RECURSIVE FirstTool(_)
FirstTool(ms) ==
  IF ms = <<>> THEN <<>>
  ELSE IF Head(ms).role = "tool" THEN <<ToolMessage(Head(ms).content)>>
  ELSE FirstTool(Tail(ms))

format_stream_response(chunk_, metadata, uuid) ==
  IF Len(chunk_.choices) > 0
  THEN LET delta == chunk_.choices[1].delta IN
       IF delta # NullDelta
       THEN LET hasContext == "context" \in DOMAIN delta
                tool == IF hasContext /\ ContextMessages(delta.context) # <<>>
                        THEN FirstTool(delta.context.messages) ELSE <<>>
            IN IF tool # <<>>
               THEN response_obj(chunk_, metadata, uuid, tool)
               ELSE IF delta.role = "assistant" /\ hasContext
               THEN response_obj(chunk_, metadata, uuid,
                      <<[role |-> "assistant", context |-> delta.context]>>)
               ELSE IF Truthy(delta.content)
               THEN response_obj(chunk_, metadata, uuid,
                      <<AssistantMessage(delta.content)>>)
               ELSE EmptyObject
       ELSE EmptyObject
  ELSE EmptyObject

\* The next chunk of the stream arrives.
ReceiveChunk ==
  /\ formatted
  /\ chunk' \in Chunks
  /\ message_uuid' \in MessageUuids
  /\ formatted' = FALSE
  /\ response' = EmptyObject
  /\ UNCHANGED <<history_metadata, storeVars, result, procVars>>

FormatStreamResponse ==
  /\ ~formatted
  /\ response' = format_stream_response(chunk, history_metadata, message_uuid)
  /\ formatted' = TRUE
  /\ UNCHANGED <<chunk, history_metadata, message_uuid, storeVars, result, procVars>>

InitFormat ==
  /\ container = {}
  /\ now = 0
  /\ enable_message_feedback = FALSE
  /\ lastOp = [op |-> "init", doc |-> <<>>]
  /\ result = <<>>
  /\ pc = [p \in Procs |-> "idle"]
  /\ frame = [p \in Procs |-> NoFrame]
  /\ chunk \in Chunks
  /\ history_metadata = "h"
  /\ message_uuid \in MessageUuids
  /\ response = EmptyObject
  /\ formatted = FALSE

NextFormat == ReceiveChunk \/ FormatStreamResponse

SpecFormat == InitFormat /\ [][NextFormat]_vars

\* ------------------------------------------------- concurrent callers
\* Each caller runs one call at a time; a call yields at every await, so each
\* container operation is a step of its own and the steps of different
\* callers interleave. lastOp names the call whose step ran last.
Step(name) == [op |-> name, doc |-> <<>>]

\* create_message up to its first await: the message document is built.
CM_Start(p, uuid, conversation_id, user_id, input_message) ==
  \E t1 \in now..MaxTime :
    \E t2 \in t1..MaxTime :
      /\ pc[p] = "idle"
      /\ frame' = [frame EXCEPT ![p] =
                     [op |-> "create_message",
                      message |-> NewMessage(uuid, conversation_id, user_id,
                                             input_message, t1, t2,
                                             enable_message_feedback)]]
      /\ pc' = [pc EXCEPT ![p] = "cm_upsert_item"]
      /\ now' = t2
      /\ lastOp' = Step("create_message")
      /\ UNCHANGED <<container, enable_message_feedback, result, fmtVars>>

\* resp = await self.container_client.upsert_item(message)
CM_UpsertItem(p) ==
  /\ pc[p] = "cm_upsert_item"
  /\ container' = upsert_item(container, frame[p].message)
  /\ pc' = [pc EXCEPT ![p] = "cm_get_conversation"]
  /\ lastOp' = Step("create_message")
  /\ UNCHANGED <<frame, now, enable_message_feedback, result, fmtVars>>

\* conversation = await self.get_conversation(...); without one the call
\* returns "Conversation not found", with one it sets updatedAt on its copy.
CM_GetConversation(p) ==
  /\ pc[p] = "cm_get_conversation"
  /\ LET message == frame[p].message
         found == get_conversation(container, message.userId, message.conversationId)
     IN IF found = {}
        THEN /\ pc' = [pc EXCEPT ![p] = "idle"]
             /\ frame' = [frame EXCEPT ![p] = NoFrame]
        ELSE /\ pc' = [pc EXCEPT ![p] = "cm_upsert_conversation"]
             /\ frame' = [frame EXCEPT ![p] =
                            [op |-> "create_message", message |-> message,
                             conversation |->
                               TouchConversation(CHOOSE x \in found : TRUE, message)]]
  /\ lastOp' = Step("create_message")
  /\ UNCHANGED <<container, now, enable_message_feedback, result, fmtVars>>

\* await self.upsert_conversation(conversation)
CM_UpsertConversation(p) ==
  /\ pc[p] = "cm_upsert_conversation"
  /\ container' = upsert_conversation(container, frame[p].conversation)
  /\ pc' = [pc EXCEPT ![p] = "idle"]
  /\ frame' = [frame EXCEPT ![p] = NoFrame]
  /\ lastOp' = Step("create_message")
  /\ UNCHANGED <<now, enable_message_feedback, result, fmtVars>>

\* delete_conversation up to the end of its read_item; the read raises when
\* the document is not there.
DC_ReadItem(p, user_id, conversation_id) ==
  /\ pc[p] = "idle"
  /\ IF read_item(container, conversation_id, user_id) # {}
     THEN /\ pc' = [pc EXCEPT ![p] = "dc_delete_item"]
          /\ frame' = [frame EXCEPT ![p] =
                         [op |-> "delete_conversation", user |-> user_id,
                          conv |-> conversation_id]]
     ELSE UNCHANGED <<pc, frame>>
  /\ lastOp' = Step("delete_conversation")
  /\ UNCHANGED <<container, now, enable_message_feedback, result, fmtVars>>

\* resp = await self.container_client.delete_item(...)
DC_DeleteItem(p) ==
  /\ pc[p] = "dc_delete_item"
  /\ container' = delete_item(container, frame[p].conv, frame[p].user)
  /\ pc' = [pc EXCEPT ![p] = "idle"]
  /\ frame' = [frame EXCEPT ![p] = NoFrame]
  /\ lastOp' = Step("delete_conversation")
  /\ UNCHANGED <<now, enable_message_feedback, result, fmtVars>>

\* The conversation the concurrent calls are about.
TheUser == "u1"
TheConversation == "c1"

CreateMessageStart ==
  \E p \in Procs, uuid \in MsgIdsOf[TheUser], im \in InputMessages :
    CM_Start(p, uuid, TheConversation, TheUser, im)

CreateMessageUpsertItem == \E p \in Procs : CM_UpsertItem(p)

CreateMessageGetConversation == \E p \in Procs : CM_GetConversation(p)

CreateMessageUpsertConversation == \E p \in Procs : CM_UpsertConversation(p)

DeleteConversationReadItem ==
  \E p \in Procs : DC_ReadItem(p, TheUser, TheConversation)

DeleteConversationDeleteItem == \E p \in Procs : DC_DeleteItem(p)

\* create_conversation and upsert_conversation by further callers.
CreateTheConversation ==
  \E title \in Titles : CreateConversationCall(TheUser, title)

UpsertTheConversation ==
  \E conversation \in CallerConversations :
    /\ conversation.userId = TheUser
    /\ conversation.id = TheConversation
    /\ UpsertConversationCall(conversation)

InitConcurrent ==
  /\ container = {}
  /\ now = 0
  /\ enable_message_feedback = FALSE
  /\ lastOp = [op |-> "init", doc |-> <<>>]
  /\ InitRest

NextConcurrent ==
  \/ CreateTheConversation
  \/ UpsertTheConversation
  \/ CreateMessageStart
  \/ CreateMessageUpsertItem
  \/ CreateMessageGetConversation
  \/ CreateMessageUpsertConversation
  \/ DeleteConversationReadItem
  \/ DeleteConversationDeleteItem

SpecConcurrent == InitConcurrent /\ [][NextConcurrent]_vars

\* Concurrent create_message calls on one existing conversation, nothing else.
InitMessages ==
  /\ container = {NewConversation(TheConversation, TheUser, "", 0, 0)}
  /\ now = 0
  /\ enable_message_feedback = FALSE
  /\ lastOp = [op |-> "init", doc |-> <<>>]
  /\ InitRest

NextMessages ==
  \/ CreateMessageStart
  \/ CreateMessageUpsertItem
  \/ CreateMessageGetConversation
  \/ CreateMessageUpsertConversation

SpecMessages == InitMessages /\ [][NextMessages]_vars

\* ================================================================ claims
\* Vocabulary of the claims, stated on the documents themselves.
IsConversation(d, user_id, id) ==
  d.type = "conversation" /\ d.userId = user_id /\ d.id = id

IsMessageOf(d, user_id, conversation_id) ==
  d.type = "message" /\ d.userId = user_id /\ d.conversationId = conversation_id

ConversationExists(c, user_id, id) == \E d \in c : IsConversation(d, user_id, id)

HasMessages(c, user_id, id) == \E d \in c : IsMessageOf(d, user_id, id)

\* Every message references an existing conversation of the same user.
RefIntegrity(c) ==
  \A m \in c : m.type = "message" => ConversationExists(c, m.userId, m.conversationId)

\* ---- C1
\* C1 as stated: after delete_conversation on an existing conversation the
\* container holds neither the conversation nor any message of it.
C1_DeleteCascades ==
  [][\A u \in Users, id \in ConvIds :
        (DeleteConversationCall(u, id) /\ ConversationExists(container, u, id))
        => (~ConversationExists(container', u, id) /\ ~HasMessages(container', u, id))]_vars

\* C1 amended: delete_conversation on an existing conversation removes the
\* conversation document and nothing else; its messages stay in the store.
C1_DeletesOnlyConversation ==
  [][\A u \in Users, id \in ConvIds :
        (DeleteConversationCall(u, id) /\ ConversationExists(container, u, id))
        => /\ ~ConversationExists(container', u, id)
           /\ container' = {d \in container : ~IsConversation(d, u, id)}]_vars

\* A conversation was deleted and a message of it is still in the store.
C1_Witness ==
  /\ lastOp.op = "delete_conversation"
  /\ lastOp.doc # <<>>
  /\ ~ConversationExists(container, lastOp.doc[1], lastOp.doc[2])
  /\ HasMessages(container, lastOp.doc[1], lastOp.doc[2])

\* ---- C2
\* C2 as stated: in every reachable state every message references an
\* existing conversation of the same user.
C2_RefIntegrityAlways == RefIntegrity(container)

\* The caller convention, for the call a step makes: create_message names an
\* existing conversation, delete_conversation a conversation without messages.
ConventionKept ==
  /\ \A u \in Users, id \in ConvIds, im \in InputMessages :
       \A uuid \in MsgIdsOf[u] :
         CreateMessageCall(uuid, id, u, im) => ConversationExists(container, u, id)
  /\ \A u \in Users, id \in ConvIds :
       DeleteConversationCall(u, id) => ~HasMessages(container, u, id)

\* C2 amended: every call that keeps the caller convention preserves the
\* reference of every message to an existing conversation of its user.
C2_RefIntegrityByConvention ==
  [][(RefIntegrity(container) /\ ConventionKept) => RefIntegrity(container')]_vars

\* A message was created in an existing conversation and the references hold.
C2_Witness ==
  /\ lastOp.op = "create_message"
  /\ lastOp.doc # <<>>
  /\ HasMessages(container, lastOp.doc[1], lastOp.doc[2])
  /\ RefIntegrity(container)

\* ---- C3
\* C3: create_message on an existing conversation inserts the message
\* document (replacing any document with its key) and changes the conversation
\* in its updatedAt alone, which becomes the message's createdAt; no other
\* document changes.
C3_CreateMessageTouches ==
  [][\A u \in Users, id \in ConvIds, im \in InputMessages :
       \A uuid \in MsgIdsOf[u] :
        (CreateMessageCall(uuid, id, u, im) /\ ConversationExists(container, u, id))
        => \E m \in container', conv \in container :
              /\ IsMessageOf(m, u, id) /\ m.id = uuid
              /\ m.role = im.role /\ m.content = im.content
              /\ IsConversation(conv, u, id)
              /\ container' =
                   {d \in container : d # conv /\ ~(d.id = uuid /\ d.userId = u)}
                   \cup {m, [conv EXCEPT !.updatedAt = m.createdAt]}]_vars

\* A message whose two timestamps differ was created in an existing
\* conversation, which carries the message's createdAt.
C3_Witness ==
  /\ lastOp.op = "create_message"
  /\ lastOp.doc # <<>>
  /\ \E m \in container, conv \in container :
        /\ IsMessageOf(m, lastOp.doc[1], lastOp.doc[2])
        /\ IsConversation(conv, lastOp.doc[1], lastOp.doc[2])
        /\ m.createdAt # m.updatedAt
        /\ conv.updatedAt = m.createdAt

\* ---- C4
\* C4 as stated: a message document carries a feedback field only if the
\* client was constructed with enable_message_feedback = True.
C4_FeedbackOnlyIfEnabled ==
  \A m \in container :
    (m.type = "message" /\ "feedback" \in DOMAIN m) => enable_message_feedback

\* ---- C8
\* C8: delete_messages removes exactly the message documents of the given
\* user and conversation; every other document is unchanged.
C8_DeleteMessagesFrame ==
  [][\A u \in Users, id \in ConvIds :
        DeleteMessagesCall(id, u)
        => /\ ~HasMessages(container', u, id)
           /\ container' = {d \in container : ~IsMessageOf(d, u, id)}]_vars

\* Messages were deleted and another document is still in the store.
C8_Witness ==
  /\ lastOp.op = "delete_messages"
  /\ lastOp.doc # <<>>
  /\ ~HasMessages(container, lastOp.doc[1], lastOp.doc[2])
  /\ container # {}

\* ---- C5
Max(a, b) == IF a > b THEN a ELSE b

\* d comes strictly before e in the order sort_order of updatedAt.
Before(d, e, sort_order) ==
  IF sort_order = "ASC" THEN StrLess(d.updatedAt, e.updatedAt)
  ELSE StrLess(e.updatedAt, d.updatedAt)

\* C5: get_conversations returns conversations of user_id only, each once,
\* sorted by updatedAt in sort_order (DESC when omitted); with a limit the
\* list is the slice of the sorted list from offset of at most limit items,
\* without one it is the whole sorted list whatever the offset.
C5_GetConversations ==
  lastOp.op = "get_conversations" =>
    LET order == IF lastOp.defaults THEN "DESC" ELSE lastOp.sort_order
        skip  == IF lastOp.limit = <<>> \/ lastOp.defaults THEN 0 ELSE lastOp.offset
        all   == {d \in container : d.type = "conversation" /\ d.userId = lastOp.user}
        n     == Cardinality(all)
    IN /\ Len(result) = IF lastOp.limit = <<>> THEN n
                        ELSE Min(lastOp.limit[1], Max(0, n - skip))
       /\ \A i \in 1..Len(result) : result[i] \in all
       /\ \A i, j \in 1..Len(result) : i # j => result[i] # result[j]
       /\ \A i, j \in 1..Len(result) : i < j => ~Before(result[j], result[i], order)
       /\ \A i \in 1..Len(result) :
            /\ Cardinality({d \in all : Before(d, result[i], order)}) <= skip + i - 1
            /\ Cardinality({d \in all : ~Before(result[i], d, order)}) >= skip + i

\* A page that starts past the first of two conversations of a user with
\* different updatedAt was returned.
C5_Witness ==
  /\ lastOp.op = "get_conversations"
  /\ lastOp.limit # <<>>
  /\ lastOp.offset > 0
  /\ Len(result) > 0
  /\ \E d \in container :
        /\ d.type = "conversation" /\ d.userId = lastOp.user
        /\ d.updatedAt # result[1].updatedAt

\* ---- C6
\* C6 as stated: in the list get_messages returns, a message created
\* earlier comes before one created later.
C6_MessagesInCreationOrder ==
  lastOp.op = "get_messages" =>
    \A i, j \in 1..Len(result) :
      i < j => ~StrLess(result[j].createdAt, result[i].createdAt)

\* ---- C7
\* C7: format_stream_response returns the empty object or an envelope of
\* exactly id, model, created, object, choices, history_metadata whose one
\* choice holds exactly one message, of role "tool" or "assistant", carrying
\* content or context; the id is message_uuid when one (not empty) is given,
\* the chunk's id otherwise.
C7_StreamEnvelope ==
  formatted =>
    \/ DOMAIN response = {}
    \/ /\ DOMAIN response =
            {"id", "model", "created", "object", "choices", "history_metadata"}
       /\ Len(response.choices) = 1
       /\ DOMAIN response.choices[1] = {"messages"}
       /\ Len(response.choices[1].messages) = 1
       /\ LET m == response.choices[1].messages[1] IN
            /\ m.role \in {"tool", "assistant"}
            /\ DOMAIN m = {"role", "content"} \/ DOMAIN m = {"role", "context"}
       /\ response.id = IF message_uuid \in {"null", ""} THEN chunk.id ELSE message_uuid
       /\ response.model = chunk.model
       /\ response.created = chunk.created
       /\ response.object = chunk.object
       /\ response.history_metadata = history_metadata

\* A chunk whose context holds two tool messages was formatted into an
\* envelope under the caller's message_uuid.
C7_Witness ==
  /\ formatted
  /\ DOMAIN response # {}
  /\ response.id = message_uuid
  /\ response.choices[1].messages[1].role = "tool"
  /\ Len(chunk.choices[1].delta.context.messages) = 2

\* ---- C9
\* C9 as stated: create_message never re-creates a deleted conversation. A
\* create_message step writes only a conversation it read, so one it adds is
\* one deleted since: no step of create_message takes a conversation document
\* from absent to present.
C9_NoResurrection ==
  [][lastOp'.op = "create_message"
       => \A u \in Users, id \in ConvIds :
            ConversationExists(container', u, id) => ConversationExists(container, u, id)]_vars

\* ---- C10
TheUpdatedAt(c) ==
  (CHOOSE d \in c : IsConversation(d, TheUser, TheConversation)).updatedAt

\* C10 as stated, first half: under concurrent create_message calls the
\* conversation's updatedAt never decreases.
C10_UpdatedAtMonotone ==
  [][StrLeq(TheUpdatedAt(container), TheUpdatedAt(container'))]_vars

\* C10 as stated, second half: once all calls have completed, updatedAt is
\* the largest createdAt among the conversation's messages.
C10_UpdatedAtIsLatest ==
  (Idle /\ HasMessages(container, TheUser, TheConversation)) =>
    /\ \E m \in container :
         IsMessageOf(m, TheUser, TheConversation) /\ m.createdAt = TheUpdatedAt(container)
    /\ \A m \in container :
         IsMessageOf(m, TheUser, TheConversation)
           => StrLeq(m.createdAt, TheUpdatedAt(container))

\* C10 as stated, both halves.
C10_MonotoneAndLatest == C10_UpdatedAtMonotone /\ [](C10_UpdatedAtIsLatest)

====
